---------------------------- MODULE Spec2Model ----------------------------
(***************************************************************************)
(* Model of src/tic_tac_toe_backend/src/api/main.py: a FastAPI application *)
(* with a health route (GET /) and an assistant route (POST /assistant)    *)
(* that forwards the caller's message to a chat-completion provider.       *)
(*                                                                         *)
(* Strings the code inspects character by character (the request message,  *)
(* the provider's completion text) are sequences of one-character strings. *)
(* Strings the code only passes along (error texts, the API key, fixed     *)
(* prompts) are sequences of tokens; "s contains t" is "t is an element".  *)
(***************************************************************************)
EXTENDS Naturals, Sequences, FiniteSets

VARIABLES
    environ,         \* OPENAI_API_KEY in the process environment
    dotenv,          \* OPENAI_API_KEY in the .env file
    phase,           \* "import" | "ready" | "aborted": module import state
    OPENAI_API_KEY,  \* module global, line 37
    openai_client,   \* module global, line 42
    pc,              \* per request: "idle" | "received" | "awaiting" | "done"
    route,           \* per request: "GET /" | "POST /assistant"
    body,            \* per request: the JSON body sent
    outcome,         \* per request: what the provider did with its call
    response,        \* per request: the HTTP response sent
    calls,           \* per request: chat.completions.create calls it made
    loop_owner       \* request whose handler occupies the event loop

vars == <<environ, dotenv, phase, OPENAI_API_KEY, openai_client,
          pc, route, body, outcome, response, calls, loop_owner>>

-----------------------------------------------------------------------------
(* Bounds *)

MaxMsgLen == 1      \* longest request message
MaxTextLen == 3     \* longest completion text

Requests == {"r1", "r2"}

Chars == {" ", "a"}
Whitespace == {" "}

RECURSIVE StringsUpTo(_)
StringsUpTo(n) ==
    IF n = 0 THEN {<< >>}
    ELSE LET shorter == StringsUpTo(n - 1)
         IN  shorter \cup {Append(s, c) : s \in shorter, c \in Chars}

Range(s) == {s[i] : i \in 1..Len(s)}

-----------------------------------------------------------------------------
(* Configuration: lines 36-42 *)

Unset == "<unset>"
SecretKey == "sk-secret"
NoClient == [built |-> FALSE, api_key |-> Unset]

\* load_dotenv() does not override a variable already in the environment;
\* os.getenv returns None (Unset) when it is in neither place.
getenv_after_load_dotenv(env, file) == IF env /= Unset THEN env ELSE file

key_missing_only_none(key) == key = Unset

\* `not OPENAI_API_KEY`: None and the empty string are both falsy
key_missing(key) == key = Unset \/ key = ""

module_import ==
    /\ phase = "import"
    /\ LET key == getenv_after_load_dotenv(environ, dotenv) IN
       /\ OPENAI_API_KEY' = key
       /\ IF key_missing(key)
          THEN /\ phase' = "aborted"          \* raise RuntimeError
               /\ UNCHANGED openai_client
          ELSE /\ openai_client' = [built |-> TRUE, api_key |-> key]
               /\ phase' = "ready"
    /\ UNCHANGED <<environ, dotenv, pc, route, body, outcome, response,
                   calls, loop_owner>>

-----------------------------------------------------------------------------
(* Request and response records *)

NoBody == [has_message |-> FALSE, kind |-> "none", text |-> << >>]

\* JSON bodies a client can POST: {} , {"message": 7}, {"message": null},
\* {"message": "<string>"}
Bodies ==
    {NoBody,
     [has_message |-> TRUE, kind |-> "int", text |-> << >>],
     [has_message |-> TRUE, kind |-> "null", text |-> << >>]}
    \cup {[has_message |-> TRUE, kind |-> "str", text |-> s] :
              s \in StringsUpTo(MaxMsgLen)}

HTTP_200_OK == 200
HTTP_422_UNPROCESSABLE_ENTITY == 422
HTTP_502_BAD_GATEWAY == 502

NoResponse == [status |-> 0, field |-> "", value |-> << >>]

\* AssistantRequest: message is a required str field, no length constraint
AssistantRequest_valid_coercing(b) == b.has_message /\ b.kind \in {"str", "int"}

AssistantRequest_valid_min_length(b) ==
    b.has_message /\ b.kind = "str" /\ Len(b.text) >= 1

AssistantRequest_valid(b) == b.has_message /\ b.kind = "str"

validation_error(b) ==
    [status |-> HTTP_422_UNPROCESSABLE_ENTITY,
     field  |-> "detail",
     value  |-> IF b.has_message THEN <<"Input should be a valid string">>
                ELSE <<"Field required">>]

-----------------------------------------------------------------------------
(* The provider: chat.completions.create, lines 75-83 *)

SystemPrompt ==
    <<"You are the helpful AI assistant for an online Tic Tac Toe game. Answer rules, strategies, and give helpful, friendly advice for the game.">>

max_tokens == 256
temperature_tenths == 7      \* temperature=0.7

RECURSIVE lstrip(_)
lstrip(s) ==
    IF s /= << >> /\ Head(s) \in Whitespace THEN lstrip(Tail(s)) ELSE s

RECURSIVE rstrip(_)
rstrip(s) ==
    IF s /= << >> /\ s[Len(s)] \in Whitespace
    THEN rstrip(SubSeq(s, 1, Len(s) - 1))
    ELSE s

strip_leading_only(s) == lstrip(s)

\* str.strip(): leading and trailing whitespace removed
strip(s) == rstrip(lstrip(s))

create_kwargs_stripped(message) ==
    [model       |-> "gpt-3.5-turbo",
     messages    |-> << [role |-> "system", content |-> SystemPrompt],
                        [role |-> "user", content |-> strip(message)] >>,
     max_tokens  |-> max_tokens,
     temperature_tenths |-> temperature_tenths]

\* the keyword arguments of the create call
create_kwargs(message) ==
    [model       |-> "gpt-3.5-turbo",
     messages    |-> << [role |-> "system", content |-> SystemPrompt],
                        [role |-> "user", content |-> message] >>,
     max_tokens  |-> max_tokens,
     temperature_tenths |-> temperature_tenths]

\* message.content of a choice: a string or None
NoneContent == [is_none |-> TRUE, text |-> << >>]
Contents ==
    {NoneContent}
    \cup {[is_none |-> FALSE, text |-> s] : s \in StringsUpTo(MaxTextLen)}
LaterChoice == [is_none |-> FALSE, text |-> <<"z">>]

NoException == [type |-> "none", text |-> << >>]

\* exceptions the client raises; the text is str(e)
ProviderExceptions(client) ==
    {[type |-> "APIConnectionError", text |-> <<"Connection error.">>],
     [type |-> "APITimeoutError", text |-> <<"Request timed out.">>],
     [type |-> "AuthenticationError",
      text |-> <<"Incorrect API key provided:", client.api_key>>]}

\* what one create call can do: raise, or return a completion whose
\* choices list is empty, has one choice, or has a second choice too
Outcomes(client) ==
    {[raised |-> e, choices |-> << >>] : e \in ProviderExceptions(client)}
    \cup {[raised |-> NoException, choices |-> << >>]}
    \cup {[raised |-> NoException, choices |-> <<c>>] : c \in Contents}
    \cup {[raised |-> NoException, choices |-> <<c, LaterChoice>>] :
              c \in Contents}

NoOutcome == [raised |-> [type |-> "pending", text |-> << >>],
              choices |-> << >>]

-----------------------------------------------------------------------------
(* GET / : lines 53-56 *)

health_check_result ==
    [status |-> HTTP_200_OK, field |-> "message", value |-> <<"Healthy">>]

-----------------------------------------------------------------------------
(* POST /assistant : lines 65-91 *)

FixedDetail ==
    "Failed to get a response from the assistant. Please try again later."

\* lines 75-85, given what the create call did: the AssistantResponse
\* returned, or the exception that leaves the try block
try_body(o) ==
    IF o.raised /= NoException
    THEN [ok |-> FALSE, answer |-> << >>, exc |-> o.raised]
    ELSE IF Len(o.choices) = 0                      \* response.choices[0]
    THEN [ok |-> FALSE, answer |-> << >>,
          exc |-> [type |-> "IndexError",
                   text |-> <<"list index out of range">>]]
    ELSE IF o.choices[1].is_none                    \* None.strip()
    THEN [ok |-> FALSE, answer |-> << >>,
          exc |-> [type |-> "AttributeError",
                   text |-> <<"'NoneType' object has no attribute 'strip'">>]]
    ELSE [ok |-> TRUE, answer |-> strip(o.choices[1].text),
          exc |-> NoException]

except_handler_narrow(e) ==
    IF e.type \in {"IndexError", "AttributeError"}
    THEN [status |-> 500, field |-> "detail",
          value |-> <<"Internal Server Error">>]
    ELSE [status |-> HTTP_502_BAD_GATEWAY, field |-> "detail",
          value |-> <<FixedDetail>>]

except_handler_leaky(e) ==
    [status |-> HTTP_502_BAD_GATEWAY, field |-> "detail",
     value |-> <<FixedDetail>> \o e.text]

\* lines 86-91: `except Exception as e`, e is not used in the response
except_handler(e) ==
    [status |-> HTTP_502_BAD_GATEWAY, field |-> "detail",
     value |-> <<FixedDetail>>]

AssistantResponse(answer) ==
    [status |-> HTTP_200_OK, field |-> "answer", value |-> answer]

ask_assistant_result(o) ==
    LET t == try_body(o)
    IN  IF t.ok THEN AssistantResponse(t.answer) ELSE except_handler(t.exc)

-----------------------------------------------------------------------------
(* The server *)

Routes == {"GET /", "POST /assistant"}

Init ==
    /\ environ \in {Unset, "", SecretKey}
    /\ dotenv \in {Unset, "", SecretKey}
    /\ phase = "import"
    /\ OPENAI_API_KEY = Unset
    /\ openai_client = NoClient
    /\ pc = [r \in Requests |-> "idle"]
    /\ route = [r \in Requests |-> "GET /"]
    /\ body = [r \in Requests |-> NoBody]
    /\ outcome = [r \in Requests |-> NoOutcome]
    /\ response = [r \in Requests |-> NoResponse]
    /\ calls = [r \in Requests |-> << >>]
    /\ loop_owner = "none"

\* a client sends a request; the server process must be up to accept it
receive(r, rt, b) ==
    /\ phase = "ready"
    /\ pc[r] = "idle"
    /\ rt = "GET /" => b = NoBody
    /\ pc' = [pc EXCEPT ![r] = "received"]
    /\ route' = [route EXCEPT ![r] = rt]
    /\ body' = [body EXCEPT ![r] = b]
    /\ UNCHANGED <<environ, dotenv, phase, OPENAI_API_KEY, openai_client,
                   outcome, response, calls, loop_owner>>

\* the event loop dispatches GET / and sends its response
health_check(r) ==
    /\ pc[r] = "received"
    /\ route[r] = "GET /"
    /\ loop_owner = "none"
    /\ response' = [response EXCEPT ![r] = health_check_result]
    /\ pc' = [pc EXCEPT ![r] = "done"]
    /\ UNCHANGED <<environ, dotenv, phase, OPENAI_API_KEY, openai_client,
                   route, body, outcome, calls, loop_owner>>

\* the event loop dispatches POST /assistant: the body is validated against
\* AssistantRequest, then the coroutine ask_assistant runs on the loop up to
\* its create call, a blocking call of the synchronous client
ask_assistant_call(r) ==
    /\ pc[r] = "received"
    /\ route[r] = "POST /assistant"
    /\ loop_owner = "none"
    /\ IF ~AssistantRequest_valid(body[r])
       THEN /\ response' = [response EXCEPT ![r] = validation_error(body[r])]
            /\ pc' = [pc EXCEPT ![r] = "done"]
            /\ UNCHANGED <<calls, loop_owner>>
       ELSE /\ calls' = [calls EXCEPT
                           ![r] = Append(@, create_kwargs(body[r].text))]
            /\ pc' = [pc EXCEPT ![r] = "awaiting"]
            /\ loop_owner' = r
            /\ UNCHANGED response
    /\ UNCHANGED <<environ, dotenv, phase, OPENAI_API_KEY, openai_client,
                   route, body, outcome>>

ask_assistant_return_retrying(r) ==
    /\ pc[r] = "awaiting"
    /\ loop_owner = r
    /\ \E o \in Outcomes(openai_client) :
          /\ outcome' = [outcome EXCEPT ![r] = o]
          /\ IF ~try_body(o).ok /\ Len(calls[r]) < 2
             THEN /\ calls' = [calls EXCEPT
                                 ![r] = Append(@, create_kwargs(body[r].text))]
                  /\ UNCHANGED <<response, pc, loop_owner>>
             ELSE /\ response' = [response EXCEPT
                                    ![r] = ask_assistant_result(o)]
                  /\ pc' = [pc EXCEPT ![r] = "done"]
                  /\ loop_owner' = "none"
                  /\ UNCHANGED calls
    /\ UNCHANGED <<environ, dotenv, phase, OPENAI_API_KEY, openai_client,
                   route, body>>

\* the create call ends (returns or raises); the coroutine runs to its end
\* and the response is sent
ask_assistant_return(r) ==
    /\ pc[r] = "awaiting"
    /\ loop_owner = r
    /\ \E o \in Outcomes(openai_client) :
          /\ outcome' = [outcome EXCEPT ![r] = o]
          /\ response' = [response EXCEPT ![r] = ask_assistant_result(o)]
    /\ pc' = [pc EXCEPT ![r] = "done"]
    /\ loop_owner' = "none"
    /\ UNCHANGED <<environ, dotenv, phase, OPENAI_API_KEY, openai_client,
                   route, body, calls>>

Next ==
    \/ module_import
    \/ \E r \in Requests, rt \in Routes, b \in Bodies : receive(r, rt, b)
    \/ \E r \in Requests : health_check(r)
    \/ \E r \in Requests : ask_assistant_call(r)
    \/ \E r \in Requests : ask_assistant_return(r)

Spec == Init /\ [][Next]_vars

-----------------------------------------------------------------------------
(* Vocabulary of the properties, stated without the handler's operators *)

Post(r) == route[r] = "POST /assistant"
Get(r) == route[r] = "GET /"
Done(r) == pc[r] = "done"

IsString(b) == b.has_message /\ b.kind = "str"

\* the request got past validation and into ask_assistant
ReachedGateway(r) ==
    Post(r) /\ (pc[r] = "awaiting" \/ (Done(r) /\ response[r].status /= 422))

\* the create call raised, returned no choice, or a first choice without text
CallFailed(o) ==
    \/ o.raised.type /= "none"
    \/ o.choices = << >>
    \/ o.choices[1].is_none

ProviderFailed(r) == Done(r) /\ ReachedGateway(r) /\ CallFailed(outcome[r])
ProviderSucceeded(r) == Done(r) /\ ReachedGateway(r) /\ ~CallFailed(outcome[r])

UpstreamUnavailable ==
    [status |-> 502, field |-> "detail",
     value |-> <<"Failed to get a response from the assistant. Please try again later.">>]

\* a is t without a whitespace-only prefix and a whitespace-only suffix, and
\* a itself neither starts nor ends with whitespace
IsTrimOf(a, t) ==
    \E i, j \in 0..Len(t) :
        /\ i + j <= Len(t)
        /\ a = SubSeq(t, i + 1, Len(t) - j)
        /\ \A k \in 1..i : t[k] \in Whitespace
        /\ \A k \in (Len(t) - j + 1)..Len(t) : t[k] \in Whitespace
        /\ a /= << >> => (a[1] \notin Whitespace /\ a[Len(a)] \notin Whitespace)

KeyConfigured ==
    \/ environ \notin {Unset, ""}
    \/ environ = Unset /\ dotenv \notin {Unset, ""}

-----------------------------------------------------------------------------
(* Properties *)

\* C1: every schema-valid POST /assistant whose provider call failed (the
\* call raised, the choice list was empty, or the first choice had no text)
\* was answered 502 with the fixed detail, and with nothing else.
C1_ProviderFailureIs502 ==
    \A r \in Requests : ProviderFailed(r) => response[r] = UpstreamUnavailable

C1_Witness ==
    \E r, s \in Requests :
        /\ ProviderFailed(r) /\ outcome[r].raised.type = "APITimeoutError"
        /\ ProviderFailed(s) /\ outcome[s].raised.type = "none"
        /\ outcome[s].choices = << >>
        /\ response[r].status = 502 /\ response[s].status = 502

\* C2: every POST /assistant whose provider call succeeded was answered 200
\* with answer = the first choice's text without its leading and trailing
\* whitespace; later choices and interior whitespace do not matter.
C2_AnswerIsTrimmedFirstChoice ==
    \A r \in Requests :
        ProviderSucceeded(r) =>
            /\ response[r].status = 200
            /\ response[r].field = "answer"
            /\ IsTrimOf(response[r].value, outcome[r].choices[1].text)

C2_Witness ==
    \E r, s \in Requests :
        /\ ProviderSucceeded(r)
        /\ Len(outcome[r].choices) = 2
        /\ outcome[r].choices[1].text = <<" ", "a", " ">>
        /\ response[r].value = <<"a">>
        /\ ProviderSucceeded(s)
        /\ outcome[s].choices[1].text = <<"a", " ", "a">>
        /\ response[s].value = <<"a", " ", "a">>

\* C3: a POST /assistant whose body has no message, or a message that is not
\* a string, makes no provider call and is answered with status 422.
C3_MalformedBodyRejected ==
    \A r \in Requests :
        (Post(r) /\ pc[r] /= "idle" /\ ~IsString(body[r])) =>
            /\ calls[r] = << >>
            /\ pc[r] \in {"received", "done"}
            /\ Done(r) => response[r].status = 422

C3_Witness ==
    \E r, s \in Requests :
        /\ Post(r) /\ Done(r) /\ ~body[r].has_message
        /\ response[r].status = 422 /\ calls[r] = << >>
        /\ Post(s) /\ Done(s) /\ body[s].kind = "int"
        /\ response[s].status = 422 /\ calls[s] = << >>

\* C4 as claimed: a POST /assistant whose message is the empty string is
\* rejected with a client error at the schema boundary and makes no
\* provider call.
C4_EmptyMessageRejected ==
    \A r \in Requests :
        (Post(r) /\ IsString(body[r]) /\ body[r].text = << >>) =>
            /\ calls[r] = << >>
            /\ Done(r) => response[r].status = 422

\* C4 as amended: the schema requires message to be present and a string and
\* nothing more; a POST /assistant whose message is the empty string passes
\* validation, and once dispatched it has made one provider call whose user
\* content is the empty string and is never answered 422.
C4_EmptyMessageAccepted ==
    \A r \in Requests :
        (Post(r) /\ IsString(body[r]) /\ body[r].text = << >>
            /\ pc[r] \in {"awaiting", "done"}) =>
            /\ Len(calls[r]) = 1
            /\ calls[r][1].messages[2].content = << >>
            /\ response[r].status /= 422

C4_Witness ==
    \E r \in Requests :
        /\ Post(r) /\ Done(r) /\ IsString(body[r]) /\ body[r].text = << >>
        /\ Len(calls[r]) = 1
        /\ response[r].status = 200

\* C5: each request that reached the gateway has made exactly one provider
\* call and every other request none, so the calls made number the requests
\* that reached the gateway; a request answered 502 made one call only.
C5_OneCallPerRequest ==
    /\ \A r \in Requests :
           Len(calls[r]) = IF ReachedGateway(r) THEN 1 ELSE 0
    /\ Cardinality({<<r, i>> \in Requests \X (1..2) : i <= Len(calls[r])})
           = Cardinality({r \in Requests : ReachedGateway(r)})
    /\ \A r \in Requests :
           (Done(r) /\ response[r].status = 502) => Len(calls[r]) = 1

C5_Witness ==
    \E r, s \in Requests :
        /\ ProviderFailed(r) /\ response[r].status = 502 /\ Len(calls[r]) = 1
        /\ Post(s) /\ Done(s) /\ response[s].status = 422 /\ calls[s] = << >>

\* C6: any two requests whose provider calls failed got the same response,
\* and that response contains neither the text of the exception the provider
\* raised nor the configured API key.
C6_FailureResponseUniformAndOpaque ==
    /\ \A r, s \in Requests :
           (ProviderFailed(r) /\ ProviderFailed(s)) => response[r] = response[s]
    /\ \A r \in Requests :
           ProviderFailed(r) =>
               /\ openai_client.api_key \notin Range(response[r].value)
               /\ Range(outcome[r].raised.text)
                      \cap Range(response[r].value) = {}

C6_Witness ==
    \E r, s \in Requests :
        /\ ProviderFailed(r) /\ outcome[r].raised.type = "AuthenticationError"
        /\ openai_client.api_key \in Range(outcome[r].raised.text)
        /\ ProviderFailed(s) /\ outcome[s].raised.type = "APIConnectionError"
        /\ response[r] = response[s]

\* C7: with the API key unset or empty the process never becomes ready, no
\* client is built and no request is ever received or answered; whenever the
\* process is ready or a request has been received, a non-empty key was
\* loaded and the client holds it.
C7_FailFastWithoutKey ==
    /\ ~KeyConfigured =>
           /\ phase /= "ready"
           /\ ~openai_client.built
           /\ \A r \in Requests : pc[r] = "idle" /\ response[r] = NoResponse
    /\ (phase = "ready" \/ \E r \in Requests : pc[r] /= "idle") =>
           /\ phase = "ready"
           /\ OPENAI_API_KEY \notin {Unset, ""}
           /\ openai_client.built
           /\ openai_client.api_key = OPENAI_API_KEY
    /\ phase = "aborted" => ~openai_client.built

C7_Witness ==
    /\ phase = "aborted"
    /\ environ = ""
    /\ dotenv = SecretKey
    /\ ~openai_client.built

\* C8: GET / is answered 200 {"message": "Healthy"} without a provider call,
\* and it is answered whatever the provider is doing: a GET / that has been
\* received can be answered even while assistant requests are in flight.
C8_HealthAlwaysAnswers ==
    \A h \in Requests :
        /\ (Get(h) /\ Done(h)) =>
               /\ response[h] = [status |-> 200, field |-> "message",
                                 value |-> <<"Healthy">>]
               /\ calls[h] = << >>
        /\ (Get(h) /\ pc[h] = "received") => ENABLED health_check(h)

\* The part of C8 that the code keeps: GET /, when answered, is answered
\* 200 Healthy, and no provider call is made for it.
HealthCheckFixedPayload ==
    \A h \in Requests :
        (Get(h) /\ Done(h)) =>
            /\ response[h] = [status |-> 200, field |-> "message",
                              value |-> <<"Healthy">>]
            /\ calls[h] = << >>

\* C9: concurrent assistant requests are independent: the client is never
\* changed after startup, a response depends only on the request's own
\* message and its own call's outcome, and a handler waiting on the provider
\* does not keep another received POST /assistant from being handled.
C9_ConcurrentRequestsIndependent ==
    /\ \A r \in Requests :
           pc[r] /= "idle" =>
               openai_client = [built |-> TRUE, api_key |-> OPENAI_API_KEY]
    /\ \A r, s \in Requests :
           (ReachedGateway(r) /\ Done(r) /\ ReachedGateway(s) /\ Done(s)
               /\ body[r] = body[s] /\ outcome[r] = outcome[s]) =>
               response[r] = response[s]
    /\ \A r, s \in Requests :
           (r /= s /\ pc[r] = "awaiting" /\ Post(s) /\ pc[s] = "received") =>
               ENABLED ask_assistant_call(s)

\* The part of C9 that the code keeps.
ResponseDependsOnOwnCallOnly ==
    \A r, s \in Requests :
        (ReachedGateway(r) /\ Done(r) /\ ReachedGateway(s) /\ Done(s)
            /\ outcome[r] = outcome[s]) =>
            response[r] = response[s]

\* C10: every provider call carries model gpt-3.5-turbo, max_tokens 256,
\* temperature 0.7 and exactly two messages: the fixed system instruction,
\* then a user message whose content is the request's message verbatim.
C10_FixedGenerationParameters ==
    \A r \in Requests :
        \A i \in 1..Len(calls[r]) :
            LET c == calls[r][i] IN
            /\ c.model = "gpt-3.5-turbo"
            /\ c.max_tokens = 256
            /\ c.temperature_tenths = 7
            /\ Len(c.messages) = 2
            /\ c.messages[1].role = "system"
            /\ c.messages[1].content = SystemPrompt
            /\ c.messages[2].role = "user"
            /\ c.messages[2].content = body[r].text

C10_Witness ==
    \E r, s \in Requests :
        /\ r /= s
        /\ Len(calls[r]) = 1 /\ calls[r][1].messages[2].content = <<" ">>
        /\ Len(calls[s]) = 1 /\ calls[s][1].messages[2].content = <<"a">>
        /\ calls[r][1].max_tokens = calls[s][1].max_tokens
        /\ calls[r][1].messages[1] = calls[s][1].messages[1]

=============================================================================
